---- MODULE Spec2Model ----
(***************************************************************************)
(* Model of squirrel_ctx.go: the context-qualified dispatch helpers        *)
(* (ExecContextWith, QueryContextWith, QueryRowContextWith), the two       *)
(* runner adapters (stdsqlCtxRunner, pgxRunner), the pgx execution outcome *)
(* (commandTagWrapper) and the two row-cursor wrappers (StdRowsWrapper,    *)
(* PgxRowsWrapper).                                                        *)
(*                                                                         *)
(* The adapters hold no state of their own.  The state of the model is     *)
(* the record of the last operation a caller performed (`ret`), the result *)
(* object that operation left in the caller's hands (`held`) and a short   *)
(* history of what the caller did with that object (`hist`).  The wrapped  *)
(* clients (database/sql, pgx) and the statement producer are environment: *)
(* what they return is drawn from small sets in each action.               *)
(***************************************************************************)
EXTENDS Integers, Sequences, FiniteSets, TLC

VARIABLES ret, held, hist

vars == <<ret, held, hist>>

-----------------------------------------------------------------------------
(* Bounds of the model *)

MaxArgs == 2      \* longest positional-argument list of a statement
MaxRows == 2      \* most rows a cursor yields / largest affected-row count
MaxFields == 2    \* most columns of a result

-----------------------------------------------------------------------------
(* Values *)

NilErr == "nil"                       \* Go's nil error
NilObj == [kind |-> "nil"]            \* Go's nil interface / nil pointer result
NoValue == [kind |-> "void"]          \* a method without return values
NoCtx == "none"                       \* operation takes no context
NoStmt == [query |-> "", args |-> <<>>, err |-> NilErr]

Background == "background"            \* context.Background()
Contexts == {"ctxA", "ctxB"}          \* caller-supplied contexts

Families == {"std", "pgx"}            \* WrapStdSqlCtx / WrapPgx
Queries == {"SELECT", "UPDATE"}
ArgVals == {7, 8}
ColNames == {"id", "name"}

BuildErrs == {"build_err"}            \* errors of Sqlizer.ToSql
ClientErrs == {"client_err", "ctx_canceled"}   \* errors of the wrapped client

ErrLastInsertId == "LastInsertId is not supported by pgx"
ErrNoFieldDescriptions == "no field descriptions"

SeqsUpTo(S, n) == UNION {[1..k -> S] : k \in 0..n}

ArgSeqs == SeqsUpTo(ArgVals, MaxArgs)

\* The statements a caller may dispatch: what their ToSql produces.
Statements ==
    [query : Queries, args : ArgSeqs, err : {NilErr}]
        \cup [query : {"", "SELECT"}, args : {<<>>}, err : BuildErrs]

\* Sqlizer.ToSql: the statement producer's single operation.
ToSql(s) == [query |-> s.query, args |-> s.args, err |-> s.err]

\* One call of a capability method or of a method of the wrapped client.
Call(method, ctx, query, args) ==
    [method |-> method, ctx |-> ctx, query |-> query, args |-> args]

-----------------------------------------------------------------------------
(* The wrapped clients: what a native call can return *)

\* database/sql's sql.Result.
SqlResults == [kind : {"sql.Result"}, rowsAffected : 0..MaxRows, lastInsertId : {0, 5}]

\* pgconn.CommandTag.
CommandTags == [kind : {"pgconn.CommandTag"}, rowsAffected : 0..MaxRows]

\* A native cursor (sql.Rows, pgx.Rows).  fields is the per-result
\* field-description list; a nil list is distinct from an empty one.
FieldLists(db) ==
    {[isNil |-> FALSE, list |-> l] :
        l \in SeqsUpTo([Name : ColNames], MaxFields)}
    \cup (IF db = "pgx" THEN {[isNil |-> TRUE, list |-> <<>>]} ELSE {})

NativeRowsKind(db) == IF db = "std" THEN "sql.Rows" ELSE "pgx.Rows"

NewNativeRows(db) ==
    [kind : {NativeRowsKind(db)}, remaining : 0..MaxRows, lastcols : {FALSE},
     closed : {FALSE}, lasterr : {NilErr}, fields : FieldLists(db)]

\* A native single-row scanner (sql.Row, pgx.Row): its error is deferred
\* to Scan.
NativeRowKind(db) == IF db = "std" THEN "sql.Row" ELSE "pgx.Row"

NewNativeRow(db) ==
    [kind : {NativeRowKind(db)}, scanErr : {NilErr, "no_rows"} \cup ClientErrs]

\* StdSqlCtx.ExecContext / Pgx.Exec
NativeExecOutcomes(db) ==
    IF db = "std"
      THEN [res : SqlResults, err : {NilErr}] \cup [res : {NilObj}, err : ClientErrs]
      ELSE [res : CommandTags, err : {NilErr} \cup ClientErrs]

\* StdSqlCtx.QueryContext / Pgx.QueryContext
NativeQueryOutcomes(db) ==
    [rows : NewNativeRows(db), err : {NilErr}] \cup [rows : {NilObj}, err : ClientErrs]

-----------------------------------------------------------------------------
(* Execution outcome of the pgx adapter *)

commandTagWrapper(ct) == [kind |-> "commandTagWrapper", CommandTag |-> ct]

commandTagWrapper_RowsAffected(w) ==
    [out |-> w.CommandTag.rowsAffected, err |-> NilErr]

commandTagWrapper_LastInsertId_ZeroAsSuccess(w) ==
    [out |-> 0, err |-> NilErr]

commandTagWrapper_LastInsertId(w) ==
    [out |-> 0, err |-> ErrLastInsertId]

\* sql.Result of the standard client, handed to the caller as it is.
sqlResult_RowsAffected(r) == [out |-> r.rowsAffected, err |-> NilErr]

sqlResult_LastInsertId(r) == [out |-> r.lastInsertId, err |-> NilErr]

-----------------------------------------------------------------------------
(* Cursor wrappers: construction *)

StdRowsWrapper(rows) == [kind |-> "StdRowsWrapper", Rows |-> rows]

PgxRowsWrapper(rows) == [kind |-> "PgxRowsWrapper", Rows |-> rows]

-----------------------------------------------------------------------------
(* Runner adapters.  Each method returns its results and the calls it made *)
(* to the wrapped client.  nat is what the wrapped client returns.         *)

\* ExecContext is promoted from the embedded StdSqlCtx.
stdsqlCtxRunner_ExecContext(ctx, query, args, nat) ==
    [res |-> nat.res, err |-> nat.err,
     nativeCalls |-> <<Call("ExecContext", ctx, query, args)>>]

stdsqlCtxRunner_QueryContext(ctx, query, args, nat) ==
    [res |-> IF nat.err # NilErr THEN NilObj ELSE StdRowsWrapper(nat.rows),
     err |-> nat.err,
     nativeCalls |-> <<Call("QueryContext", ctx, query, args)>>]

stdsqlCtxRunner_QueryRowContext(ctx, query, args, nat) ==
    [res |-> nat,
     nativeCalls |-> <<Call("QueryRowContext", ctx, query, args)>>]

stdsqlCtxRunner_QueryRow(query, args, nat) ==
    [res |-> nat,
     nativeCalls |-> <<Call("QueryRow", NoCtx, query, args)>>]

pgxRunner_ExecContext(ctx, query, args, nat) ==
    [res |-> commandTagWrapper(nat.res), err |-> nat.err,
     nativeCalls |-> <<Call("Exec", ctx, query, args)>>]

pgxRunner_QueryContext(ctx, query, args, nat) ==
    [res |-> IF nat.err # NilErr THEN NilObj ELSE PgxRowsWrapper(nat.rows),
     err |-> nat.err,
     nativeCalls |-> <<Call("QueryContext", ctx, query, args)>>]

pgxRunner_QueryRowContext(ctx, query, args, nat) ==
    [res |-> nat,
     nativeCalls |-> <<Call("QueryRow", ctx, query, args)>>]

pgxRunner_QueryRow(query, args, nat) ==
    [res |-> nat,
     nativeCalls |-> <<Call("QueryRow", Background, query, args)>>]

\* The method set of *pgxRunner: the methods it declares and those promoted
\* from the embedded Pgx that it does not shadow.  ctx tells whether the
\* method takes a context.Context as its first parameter.
pgxRunner_Methods ==
    { [name |-> "QueryRowContext", ctx |-> TRUE],
      [name |-> "ExecContext", ctx |-> TRUE],
      [name |-> "QueryRow", ctx |-> FALSE],
      [name |-> "QueryContext", ctx |-> TRUE],
      [name |-> "Exec", ctx |-> TRUE] }

\* Dynamic dispatch through the capability interfaces.
Runner_ExecContext(db, ctx, query, args, nat) ==
    IF db = "std" THEN stdsqlCtxRunner_ExecContext(ctx, query, args, nat)
                  ELSE pgxRunner_ExecContext(ctx, query, args, nat)

Runner_QueryContext(db, ctx, query, args, nat) ==
    IF db = "std" THEN stdsqlCtxRunner_QueryContext(ctx, query, args, nat)
                  ELSE pgxRunner_QueryContext(ctx, query, args, nat)

Runner_QueryRowContext(db, ctx, query, args, nat) ==
    IF db = "std" THEN stdsqlCtxRunner_QueryRowContext(ctx, query, args, nat)
                  ELSE pgxRunner_QueryRowContext(ctx, query, args, nat)

Runner_QueryRow(db, query, args, nat) ==
    IF db = "std" THEN stdsqlCtxRunner_QueryRow(query, args, nat)
                  ELSE pgxRunner_QueryRow(query, args, nat)

-----------------------------------------------------------------------------
(* Dispatch helpers *)

\* squirrel's Row: a RowScanner carrying a deferred build error.
Row(scanner, err) == [kind |-> "Row", RowScanner |-> scanner, err |-> err]

ExecContextWith_DropArgs(ctx, db, s, nat) ==
    LET t == ToSql(s)
        r == Runner_ExecContext(db, ctx, t.query, <<>>, nat)
    IN IF t.err # NilErr
         THEN [res |-> NilObj, err |-> t.err, toSql |-> 1,
               capCalls |-> <<>>, nativeCalls |-> <<>>]
         ELSE [res |-> r.res, err |-> r.err, toSql |-> 1,
               capCalls |-> <<Call("ExecContext", ctx, t.query, <<>>)>>,
               nativeCalls |-> r.nativeCalls]

ExecContextWith(ctx, db, s, nat) ==
    LET t == ToSql(s)
        r == Runner_ExecContext(db, ctx, t.query, t.args, nat)
    IN IF t.err # NilErr
         THEN [res |-> NilObj, err |-> t.err, toSql |-> 1,
               capCalls |-> <<>>, nativeCalls |-> <<>>]
         ELSE [res |-> r.res, err |-> r.err, toSql |-> 1,
               capCalls |-> <<Call("ExecContext", ctx, t.query, t.args)>>,
               nativeCalls |-> r.nativeCalls]

QueryContextWith_NoShortCircuit(ctx, db, s, nat) ==
    LET t == ToSql(s)
        r == Runner_QueryContext(db, ctx, t.query, t.args, nat)
    IN [res |-> r.res, err |-> IF t.err # NilErr THEN t.err ELSE r.err,
        toSql |-> 1,
        capCalls |-> <<Call("QueryContext", ctx, t.query, t.args)>>,
        nativeCalls |-> r.nativeCalls]

QueryContextWith(ctx, db, s, nat) ==
    LET t == ToSql(s)
        r == Runner_QueryContext(db, ctx, t.query, t.args, nat)
    IN IF t.err # NilErr
         THEN [res |-> NilObj, err |-> t.err, toSql |-> 1,
               capCalls |-> <<>>, nativeCalls |-> <<>>]
         ELSE [res |-> r.res, err |-> r.err, toSql |-> 1,
               capCalls |-> <<Call("QueryContext", ctx, t.query, t.args)>>,
               nativeCalls |-> r.nativeCalls]

\* The capability method is called whatever ToSql returned.
QueryRowContextWith(ctx, db, s, nat) ==
    LET t == ToSql(s)
        r == Runner_QueryRowContext(db, ctx, t.query, t.args, nat)
    IN [res |-> Row(r.res, t.err), err |-> NilErr, toSql |-> 1,
        capCalls |-> <<Call("QueryRowContext", ctx, t.query, t.args)>>,
        nativeCalls |-> r.nativeCalls]

-----------------------------------------------------------------------------
(* The native cursor (sql.Rows, pgx.Rows): a forward-only iteration that  *)
(* closes itself when it runs out of rows.                                 *)

\* termErr: the error the iteration ends with, if any.
NativeRows_Next(n, termErr) ==
    IF n.closed THEN [ok |-> FALSE, Rows |-> n]
    ELSE IF n.remaining > 0
      THEN [ok |-> TRUE,
            Rows |-> [n EXCEPT !.remaining = @ - 1, !.lastcols = TRUE]]
      ELSE [ok |-> FALSE,
            Rows |-> [n EXCEPT !.closed = TRUE, !.lasterr = termErr]]

\* destsOk: the destinations match the shape of the row.
NativeRows_Scan(n, destsOk) ==
    IF n.closed THEN (IF n.lasterr # NilErr THEN n.lasterr ELSE "rows_closed")
    ELSE IF ~n.lastcols THEN "scan_without_next"
    ELSE IF ~destsOk THEN "scan_mismatch"
    ELSE NilErr

\* closeErr: what closing reports; recorded: whether the cursor also keeps
\* it for Err.
NativeRows_Close(n, closeErr, recorded) ==
    IF n.closed THEN [err |-> NilErr, Rows |-> n]
    ELSE [err |-> closeErr,
          Rows |-> [n EXCEPT !.closed = TRUE,
                             !.lasterr = IF recorded THEN closeErr ELSE @]]

NativeRows_Err(n) == n.lasterr

NativeRows_Columns(n) ==
    IF n.closed THEN [out |-> [isNil |-> TRUE, list |-> <<>>], err |-> "rows_closed"]
    ELSE [out |-> [isNil |-> FALSE,
                   list |-> [i \in 1..Len(n.fields.list) |-> n.fields.list[i].Name]],
          err |-> NilErr]

NativeRows_FieldDescriptions(n) == n.fields

\* A native single-row scanner.
NativeRow_Scan(row) == row.scanErr

-----------------------------------------------------------------------------
(* Cursor wrappers.  Each method returns its results, the wrapper after    *)
(* the call and the calls it made to the native cursor.                    *)

CursorCall(method) == Call(method, NoCtx, "", <<>>)

StdRowsWrapper_Close_Surfacing(r, closeErr, recorded) ==
    LET c == NativeRows_Close(r.Rows, closeErr, recorded)
    IN [out |-> NoValue, err |-> c.err, self |-> [r EXCEPT !.Rows = c.Rows],
        nativeCalls |-> <<CursorCall("Close")>>]

StdRowsWrapper_Close(r, closeErr, recorded) ==
    LET c == NativeRows_Close(r.Rows, closeErr, recorded)
    IN [out |-> NoValue, err |-> NilErr, self |-> [r EXCEPT !.Rows = c.Rows],
        nativeCalls |-> <<CursorCall("Close")>>]

StdRowsWrapper_Err(r) ==
    [out |-> NoValue, err |-> NativeRows_Err(r.Rows), self |-> r,
     nativeCalls |-> <<CursorCall("Err")>>]

StdRowsWrapper_Next(r, termErr) ==
    LET c == NativeRows_Next(r.Rows, termErr)
    IN [out |-> c.ok, err |-> NilErr, self |-> [r EXCEPT !.Rows = c.Rows],
        nativeCalls |-> <<CursorCall("Next")>>]

StdRowsWrapper_Scan(r, destsOk) ==
    [out |-> NoValue, err |-> NativeRows_Scan(r.Rows, destsOk), self |-> r,
     nativeCalls |-> <<CursorCall("Scan")>>]

StdRowsWrapper_Columns(r) ==
    LET c == NativeRows_Columns(r.Rows)
    IN [out |-> c.out, err |-> c.err, self |-> r,
        nativeCalls |-> <<CursorCall("Columns")>>]

\* pgx's Close reports nothing.
PgxRowsWrapper_Close(r, closeErr, recorded) ==
    LET c == NativeRows_Close(r.Rows, closeErr, recorded)
    IN [out |-> NoValue, err |-> NilErr, self |-> [r EXCEPT !.Rows = c.Rows],
        nativeCalls |-> <<CursorCall("Close")>>]

PgxRowsWrapper_Err(r) ==
    [out |-> NoValue, err |-> NativeRows_Err(r.Rows), self |-> r,
     nativeCalls |-> <<CursorCall("Err")>>]

PgxRowsWrapper_Next(r, termErr) ==
    LET c == NativeRows_Next(r.Rows, termErr)
    IN [out |-> c.ok, err |-> NilErr, self |-> [r EXCEPT !.Rows = c.Rows],
        nativeCalls |-> <<CursorCall("Next")>>]

PgxRowsWrapper_Scan(r, destsOk) ==
    [out |-> NoValue, err |-> NativeRows_Scan(r.Rows, destsOk), self |-> r,
     nativeCalls |-> <<CursorCall("Scan")>>]

\* A nil slice of names.
NilCols == [isNil |-> TRUE, list |-> <<>>]

PgxRowsWrapper_Columns_Reversed(r) ==
    LET fields == NativeRows_FieldDescriptions(r.Rows)
        n == Len(fields.list)
    IN [out |-> IF fields.isNil THEN NilCols
                ELSE [isNil |-> FALSE,
                      list |-> [i \in 1..n |-> fields.list[n + 1 - i].Name]],
        err |-> IF fields.isNil THEN ErrNoFieldDescriptions ELSE NilErr,
        self |-> r,
        nativeCalls |-> <<CursorCall("FieldDescriptions")>>]

PgxRowsWrapper_Columns_LenCheck(r) ==
    LET fields == NativeRows_FieldDescriptions(r.Rows)
        empty == Len(fields.list) = 0
    IN [out |-> IF empty THEN NilCols
                ELSE [isNil |-> FALSE,
                      list |-> [i \in 1..Len(fields.list) |-> fields.list[i].Name]],
        err |-> IF empty THEN ErrNoFieldDescriptions ELSE NilErr,
        self |-> r,
        nativeCalls |-> <<CursorCall("FieldDescriptions")>>]

PgxRowsWrapper_Columns(r) ==
    LET fields == NativeRows_FieldDescriptions(r.Rows)
    IN [out |-> IF fields.isNil THEN NilCols
                ELSE [isNil |-> FALSE,
                      list |-> [i \in 1..Len(fields.list) |-> fields.list[i].Name]],
        err |-> IF fields.isNil THEN ErrNoFieldDescriptions ELSE NilErr,
        self |-> r,
        nativeCalls |-> <<CursorCall("FieldDescriptions")>>]

\* Dynamic dispatch through the Rows interface.
Rows_Close(r, closeErr, recorded) ==
    IF r.kind = "StdRowsWrapper" THEN StdRowsWrapper_Close(r, closeErr, recorded)
                                 ELSE PgxRowsWrapper_Close(r, closeErr, recorded)

Rows_Err(r) ==
    IF r.kind = "StdRowsWrapper" THEN StdRowsWrapper_Err(r) ELSE PgxRowsWrapper_Err(r)

Rows_Next(r, termErr) ==
    IF r.kind = "StdRowsWrapper" THEN StdRowsWrapper_Next(r, termErr)
                                 ELSE PgxRowsWrapper_Next(r, termErr)

Rows_Scan(r, destsOk) ==
    IF r.kind = "StdRowsWrapper" THEN StdRowsWrapper_Scan(r, destsOk)
                                 ELSE PgxRowsWrapper_Scan(r, destsOk)

Rows_Columns(r) ==
    IF r.kind = "StdRowsWrapper" THEN StdRowsWrapper_Columns(r)
                                 ELSE PgxRowsWrapper_Columns(r)

\* Row.Scan: the deferred build error first, the wrapped scanner otherwise.
Row_Scan(r) ==
    IF r.err # NilErr
      THEN [err |-> r.err, nativeCalls |-> <<>>]
      ELSE [err |-> NativeRow_Scan(r.RowScanner),
            nativeCalls |-> <<CursorCall("Scan")>>]

\* Scan on whatever RowScanner the caller holds.
RowScanner_Scan(r) ==
    IF r.kind = "Row" THEN Row_Scan(r)
    ELSE [err |-> NativeRow_Scan(r), nativeCalls |-> <<CursorCall("Scan")>>]

-----------------------------------------------------------------------------
(* State *)

\* The record of one operation: what was called with what, what the wrapped
\* client returned (arg), what came back and which calls were made.
Op(op, family, ctx, stmt, arg, out, err, toSql, capCalls, nativeCalls) ==
    [op |-> op, family |-> family, ctx |-> ctx, stmt |-> stmt, arg |-> arg,
     out |-> out, err |-> err, toSql |-> toSql,
     capCalls |-> capCalls, nativeCalls |-> nativeCalls]

\* What the caller has done with the object it holds.
NoHist == [lastNext |-> "none", closeCalled |-> FALSE, columnsCalled |-> FALSE]

CursorKinds == {"StdRowsWrapper", "PgxRowsWrapper"}
OutcomeKinds == {"commandTagWrapper", "sql.Result"}
ScannerKinds == {"Row", "sql.Row", "pgx.Row"}

FamilyOf(obj) ==
    IF obj.kind \in {"StdRowsWrapper", "sql.Result", "sql.Row"} THEN "std"
    ELSE IF obj.kind = "Row" THEN
        (IF obj.RowScanner.kind = "sql.Row" THEN "std" ELSE "pgx")
    ELSE "pgx"

Init ==
    /\ ret = Op("init", "none", NoCtx, NoStmt, NoValue, NoValue, NilErr, 0, <<>>, <<>>)
    /\ held = NilObj
    /\ hist = NoHist

-----------------------------------------------------------------------------
(* Dispatch through the helpers.  The helpers and the adapters keep no     *)
(* state, so what a dispatch does is independent of what the caller did    *)
(* before it: a behaviour follows one dispatch and the use of its result.  *)

Idle == ret.op = "init"

DoExecContextWith ==
    \E ctx \in Contexts, db \in Families, s \in Statements :
      \E nat \in NativeExecOutcomes(db) :
        LET r == ExecContextWith(ctx, db, s, nat)
        IN /\ Idle
           /\ ret' = Op("ExecContextWith", db, ctx, s,
                        IF r.nativeCalls = <<>> THEN NoValue ELSE nat,
                        r.res, r.err, r.toSql, r.capCalls, r.nativeCalls)
           /\ held' = r.res
           /\ hist' = NoHist

DoQueryContextWith ==
    \E ctx \in Contexts, db \in Families, s \in Statements :
      \E nat \in NativeQueryOutcomes(db) :
        LET r == QueryContextWith(ctx, db, s, nat)
        IN /\ Idle
           /\ ret' = Op("QueryContextWith", db, ctx, s,
                        IF r.nativeCalls = <<>> THEN NoValue ELSE nat,
                        r.res, r.err, r.toSql, r.capCalls, r.nativeCalls)
           /\ held' = r.res
           /\ hist' = NoHist

DoQueryRowContextWith ==
    \E ctx \in Contexts, db \in Families, s \in Statements :
      \E nat \in NewNativeRow(db) :
        LET r == QueryRowContextWith(ctx, db, s, nat)
        IN /\ Idle
           /\ ret' = Op("QueryRowContextWith", db, ctx, s,
                        IF r.nativeCalls = <<>> THEN NoValue ELSE nat,
                        r.res, r.err, r.toSql, r.capCalls, r.nativeCalls)
           /\ held' = r.res
           /\ hist' = NoHist

\* The non-cancellable single-row query, called on the runner directly.
DoQueryRow ==
    \E db \in Families, s \in Statements :
      \E nat \in NewNativeRow(db) :
        LET r == Runner_QueryRow(db, s.query, s.args, nat)
        IN /\ Idle
           /\ s.err = NilErr
           /\ ret' = Op("QueryRow", db, NoCtx, s, nat, r.res, NilErr, 0,
                        <<Call("QueryRow", NoCtx, s.query, s.args)>>, r.nativeCalls)
           /\ held' = r.res
           /\ hist' = NoHist

-----------------------------------------------------------------------------
(* Use of the execution outcome *)

DoRowsAffected ==
    /\ held.kind \in OutcomeKinds
    /\ LET r == IF held.kind = "commandTagWrapper"
                  THEN commandTagWrapper_RowsAffected(held)
                  ELSE sqlResult_RowsAffected(held)
       IN ret' = Op("RowsAffected", FamilyOf(held), NoCtx, NoStmt, NoValue,
                    r.out, r.err, 0, <<>>, <<>>)
    /\ UNCHANGED <<held, hist>>

DoLastInsertId ==
    /\ held.kind \in OutcomeKinds
    /\ LET r == IF held.kind = "commandTagWrapper"
                  THEN commandTagWrapper_LastInsertId(held)
                  ELSE sqlResult_LastInsertId(held)
       IN ret' = Op("LastInsertId", FamilyOf(held), NoCtx, NoStmt, NoValue,
                    r.out, r.err, 0, <<>>, <<>>)
    /\ UNCHANGED <<held, hist>>

-----------------------------------------------------------------------------
(* Use of the row cursor *)

CursorOp(op, arg, r) ==
    Op(op, FamilyOf(held), NoCtx, NoStmt, arg, r.out, r.err, 0, <<>>, r.nativeCalls)

DoNext ==
    /\ held.kind \in CursorKinds
    /\ \E termErr \in {NilErr} \cup ClientErrs :
         LET r == Rows_Next(held, termErr)
         IN /\ ret' = CursorOp("Next", [termErr |-> termErr], r)
            /\ held' = r.self
            /\ hist' = [hist EXCEPT !.lastNext = IF r.out THEN "true" ELSE "false"]

DoScan ==
    /\ held.kind \in CursorKinds
    /\ \E destsOk \in BOOLEAN :
         LET r == Rows_Scan(held, destsOk)
         IN /\ ret' = CursorOp("Scan", [destsOk |-> destsOk], r)
            /\ held' = r.self
            /\ UNCHANGED hist

DoClose ==
    /\ held.kind \in CursorKinds
    /\ \E closeErr \in {NilErr} \cup ClientErrs, recorded \in BOOLEAN :
         LET r == Rows_Close(held, closeErr, recorded)
         IN /\ ret' = CursorOp("Close",
                               [closeErr |-> NativeRows_Close(held.Rows, closeErr, recorded).err],
                               r)
            /\ held' = r.self
            /\ hist' = [hist EXCEPT !.closeCalled = TRUE]

DoErr ==
    /\ held.kind \in CursorKinds
    /\ LET r == Rows_Err(held)
       IN /\ ret' = CursorOp("Err", NoValue, r)
          /\ held' = r.self
          /\ UNCHANGED hist

DoColumns ==
    /\ held.kind \in CursorKinds
    /\ LET r == Rows_Columns(held)
       IN /\ ret' = CursorOp("Columns", NoValue, r)
          /\ held' = r.self
          /\ hist' = [hist EXCEPT !.columnsCalled = TRUE]

-----------------------------------------------------------------------------
(* Use of the single-row scanner *)

DoRowScan ==
    /\ held.kind \in ScannerKinds
    /\ LET r == RowScanner_Scan(held)
       IN ret' = Op("RowScan", FamilyOf(held), NoCtx, NoStmt, NoValue,
                    NoValue, r.err, 0, <<>>, r.nativeCalls)
    /\ UNCHANGED <<held, hist>>

-----------------------------------------------------------------------------

Next ==
    \/ DoExecContextWith
    \/ DoQueryContextWith
    \/ DoQueryRowContextWith
    \/ DoQueryRow
    \/ DoRowsAffected
    \/ DoLastInsertId
    \/ DoNext
    \/ DoScan
    \/ DoClose
    \/ DoErr
    \/ DoColumns
    \/ DoRowScan

Spec == Init /\ [][Next]_vars

-----------------------------------------------------------------------------
(* Properties *)

DispatchOps == {"ExecContextWith", "QueryContextWith"}

BuildFailed == ToSql(ret.stmt).err # NilErr

\* The caller's view of the cursor: the most recent Next returned true and
\* Close has not been called.
Positioned == hist.lastNext = "true" /\ ~hist.closeCalled

\* C1: when ToSql fails with e, QueryRowContextWith returns a non-nil
\* scanner and calls neither the capability's QueryRowContext nor the
\* wrapped client, at dispatch or at scan time, and Scan on the scanner
\* returns e.
C1_QueryRowBuildErrorNeverReachesClient ==
    /\ (ret.op = "QueryRowContextWith" /\ BuildFailed) =>
          /\ ret.out # NilObj
          /\ ret.capCalls = <<>>
          /\ ret.nativeCalls = <<>>
    /\ (ret.op = "RowScan" /\ held.kind = "Row" /\ held.err # NilErr) =>
          /\ ret.err = held.err
          /\ ret.nativeCalls = <<>>

\* C2: when ToSql fails with e, ExecContextWith and QueryContextWith return
\* a nil result and exactly e, and call the capability method (and so the
\* wrapped client) zero times, whatever the runner and the context.
C2_BuildErrorShortCircuits ==
    (ret.op \in DispatchOps /\ BuildFailed) =>
        /\ ret.out = NilObj
        /\ ret.err = ToSql(ret.stmt).err
        /\ ret.capCalls = <<>>
        /\ ret.nativeCalls = <<>>

C2_Witness ==
    /\ ret.op = "QueryContextWith"
    /\ ret.family = "pgx"
    /\ BuildFailed
    /\ ret.err \in BuildErrs

\* C3: when ToSql succeeds, ExecContextWith and QueryContextWith call ToSql
\* once, call the capability method once with the caller's context and the
\* statement's query text and arguments, and return what it returned.
C3_DispatchForwardsStatement ==
    (ret.op \in DispatchOps /\ ~BuildFailed) =>
        LET t == ToSql(ret.stmt)
            m == IF ret.op = "ExecContextWith" THEN "ExecContext" ELSE "QueryContext"
            r == IF ret.op = "ExecContextWith"
                   THEN Runner_ExecContext(ret.family, ret.ctx, t.query, t.args, ret.arg)
                   ELSE Runner_QueryContext(ret.family, ret.ctx, t.query, t.args, ret.arg)
        IN /\ ret.toSql = 1
           /\ ret.capCalls = <<Call(m, ret.ctx, t.query, t.args)>>
           /\ ret.out = r.res
           /\ ret.err = r.err

C3_Witness ==
    /\ ret.op = "ExecContextWith"
    /\ ret.family = "pgx"
    /\ ~BuildFailed
    /\ Len(ret.stmt.args) >= 2
    /\ ret.stmt.args[1] # ret.stmt.args[2]
    /\ ret.err = NilErr

\* C4: ExecContext and QueryContext of both adapters return the native
\* error unmodified with a nil result when the native call fails, and a
\* non-nil result with a nil error when it succeeds.
C4_ResultOrErrorNeverBoth ==
    (ret.op \in DispatchOps /\ ret.nativeCalls # <<>>) =>
        /\ ret.err = ret.arg.err
        /\ (ret.arg.err # NilErr) => ret.out = NilObj
        /\ (ret.arg.err = NilErr) => ret.out # NilObj

\* C5: on an outcome the pgx adapter built from a command tag reporting n
\* affected rows, RowsAffected returns (n, nil) and LastInsertId returns
\* the capability-unsupported error, never a nil error.
C5_PgxOutcome ==
    /\ (ret.op = "ExecContextWith" /\ ret.family = "pgx" /\ ret.nativeCalls # <<>>) =>
          /\ ret.out.kind = "commandTagWrapper"
          /\ ret.out.CommandTag = ret.arg.res
    /\ (ret.op = "RowsAffected" /\ held.kind = "commandTagWrapper") =>
          /\ ret.out = held.CommandTag.rowsAffected
          /\ ret.err = NilErr
    /\ (ret.op = "LastInsertId" /\ held.kind = "commandTagWrapper") =>
          /\ ret.err # NilErr
          /\ ret.err = ErrLastInsertId

C5_Witness ==
    /\ ret.op = "LastInsertId"
    /\ held.kind = "commandTagWrapper"
    /\ held.CommandTag.rowsAffected = 2
    /\ ret.err = ErrLastInsertId

\* C6: the pgx adapter supplies exec, query and query-single-row without a
\* context parameter, each one calling the native method once with the
\* background context and the caller's query text and arguments.
C6_PgxSuppliesNonCancellableVariants ==
    (ret.family = "pgx") =>
        /\ \A m \in {"Exec", "Query", "QueryRow"} :
              [name |-> m, ctx |-> FALSE] \in pgxRunner_Methods
        /\ (ret.op = "QueryRow") =>
              ret.nativeCalls =
                  <<Call("QueryRow", Background, ret.stmt.query, ret.stmt.args)>>

\* C7: Columns on the pgx cursor returns an error and no names when the
\* field-description list is nil; otherwise a nil error and the names of
\* the field descriptions, in their order.
C7_PgxColumns ==
    (ret.op = "Columns" /\ held.kind = "PgxRowsWrapper") =>
        LET f == held.Rows.fields
        IN IF f.isNil
             THEN /\ ret.err # NilErr
                  /\ ret.out.isNil
                  /\ ret.out.list = <<>>
             ELSE /\ ret.err = NilErr
                  /\ ~ret.out.isNil
                  /\ Len(ret.out.list) = Len(f.list)
                  /\ \A i \in 1..Len(f.list) : ret.out.list[i] = f.list[i].Name

C7_Witness ==
    /\ ret.op = "Columns"
    /\ held.kind = "PgxRowsWrapper"
    /\ ~held.Rows.fields.isNil
    /\ Len(held.Rows.fields.list) = 2
    /\ held.Rows.fields.list[1] # held.Rows.fields.list[2]
    /\ ret.err = NilErr

\* C8 as stated: on a pgx cursor whose field-description list has no
\* entries, Columns returns the introspection error, and Scan on a
\* positioned row succeeds whatever Columns did.
C8_NoEntriesIsIntrospectionError ==
    (held.kind = "PgxRowsWrapper" /\ Len(held.Rows.fields.list) = 0) =>
        /\ (ret.op = "Columns") => ret.err = ErrNoFieldDescriptions
        /\ (ret.op = "Scan" /\ Positioned /\ ret.arg.destsOk) => ret.err = NilErr

\* C8 as amended: on a pgx cursor whose field-description list has no
\* entries, Columns returns the introspection error exactly when the list
\* is nil, and an empty name list with a nil error when it is empty but not
\* nil; Scan on a positioned row succeeds whatever Columns did.
C8_NilListIsIntrospectionError ==
    (held.kind = "PgxRowsWrapper" /\ Len(held.Rows.fields.list) = 0) =>
        /\ (ret.op = "Columns" /\ held.Rows.fields.isNil) =>
              ret.err = ErrNoFieldDescriptions
        /\ (ret.op = "Columns" /\ ~held.Rows.fields.isNil) =>
              /\ ret.err = NilErr
              /\ ret.out = [isNil |-> FALSE, list |-> <<>>]
        /\ (ret.op = "Scan" /\ Positioned /\ ret.arg.destsOk) => ret.err = NilErr

C8_Witness ==
    /\ ret.op = "Scan"
    /\ held.kind = "PgxRowsWrapper"
    /\ held.Rows.fields.isNil
    /\ hist.columnsCalled
    /\ Positioned
    /\ ret.arg.destsOk
    /\ ret.err = NilErr

\* C10: Close on the standard cursor wrapper hands the caller no error,
\* calls the native close once, and Err returns what the native cursor's
\* Err reports.
C10_StdCloseSwallowsError ==
    (held.kind = "StdRowsWrapper") =>
        /\ (ret.op = "Close") =>
              /\ ret.err = NilErr
              /\ ret.out = NoValue
              /\ ret.nativeCalls = <<CursorCall("Close")>>
        /\ (ret.op = "Err") => ret.err = NativeRows_Err(held.Rows)

C10_Witness ==
    /\ ret.op = "Close"
    /\ held.kind = "StdRowsWrapper"
    /\ ret.arg.closeErr # NilErr
    /\ ret.err = NilErr

====
